---------------------------- MODULE Spec2Model ----------------------------
(***************************************************************************)
(* News-Summarizer: the request handler index() of app.py as a state       *)
(* machine.  A Python str is a sequence of one-character strings; Python   *)
(* None / an absent value is the empty sequence <<>> and a present value v *)
(* is <<v>>.  The libraries the handler calls (validators, requests,       *)
(* newspaper, textblob) are the environment: what each call returns or     *)
(* raises is chosen when the call is made and recorded in env.             *)
(***************************************************************************)
EXTENDS Integers, Sequences, FiniteSets, TLC

VARIABLES request, env, h

vars == <<request, env, h>>

(***************************************************************************)
(* Bounds of the model.                                                    *)
(***************************************************************************)
MaxHostLen == 5
MaxPieces == 6
MaxOver == 2

(***************************************************************************)
(* Python str operations used by app.py.                                   *)
(***************************************************************************)
Whitespace == {" ", "\t", "\n"}

Min(S) == CHOOSE i \in S : \A j \in S : i <= j

Max(S) == CHOOSE i \in S : \A j \in S : i >= j

\* s[:n]
Prefix(s, n) == SubSeq(s, 1, IF n < Len(s) THEN n ELSE Len(s))

\* s[n:]
Suffix(s, n) == SubSeq(s, n + 1, Len(s))

\* s.startswith(p)
startswith(s, p) == Len(s) >= Len(p) /\ SubSeq(s, 1, Len(p)) = p

\* sub in s
Contains(s, sub) == \E i \in 1..(Len(s) - Len(sub) + 1) : SubSeq(s, i, i + Len(sub) - 1) = sub

\* s.find(sub), 1-based; 0 when absent
Find(s, sub) ==
    LET at == {i \in 1..(Len(s) - Len(sub) + 1) : SubSeq(s, i, i + Len(sub) - 1) = sub}
    IN  IF at = {} THEN 0 ELSE Min(at)

\* s.strip()
strip(s) ==
    LET keep == {i \in 1..Len(s) : s[i] \notin Whitespace}
    IN  IF keep = {} THEN <<>> ELSE SubSeq(s, Min(keep), Max(keep))

\* s.split(sep) for a one-character sep: the pieces between consecutive
\* separators, empty pieces included
split(s, sep) ==
    LET at == SelectSeq([i \in 1..Len(s) |-> i], LAMBDA i : s[i] = sep)
        cut == <<0>> \o at \o <<Len(s) + 1>>
    IN  [k \in 1..(Len(at) + 1) |-> SubSeq(s, cut[k] + 1, cut[k + 1] - 1)]

\* sep.join(parts)
RECURSIVE join(_, _)
join(sep, parts) ==
    IF parts = <<>> THEN <<>>
    ELSE IF Len(parts) = 1 THEN parts[1]
    ELSE parts[1] \o sep \o join(sep, Tail(parts))

\* x or d, for an optional str x
OrElse(x, d) == IF x = <<>> \/ x[1] = <<>> THEN d ELSE x[1]

(***************************************************************************)
(* Literals of the program and of the requests sent to it.                 *)
(***************************************************************************)
TextHtml == <<"t", "e", "x", "t", "/", "h", "t", "m", "l">>

WwwPrefix == <<"w", "w", "w", ".">>

Period == "."

SentenceSep == <<".", " ">>

AuthorSep == <<",", " ">>

Ellipsis == <<".", ".", ".">>

\* app.py:123
max_summarized_sentences == 5

\* app.py:126
SummaryChars == 800

MsgInvalidUrl == "Please enter a valid URL (include http/https)."

MsgNotHtml == "URL does not appear to be an HTML article."

MsgProbeFailed == "Failed to download the content of the URL. Try another link or check the URL."

MsgDownloadFailed == "Failed to download article content (article.download()). Try another URL."

MsgNotRetrieved == "Could not retrieve the article content. Try a different URL."

MsgParseFailed == "Article parsing failed. Try another URL."

MsgEmptyText == "Article text is empty or could not be extracted. Try another link."

Happy == "happy"

Sad == "sad"

Neutral == "neutral"

(***************************************************************************)
(* urllib.parse.urlparse(url).netloc: after the scheme and "//", up to the *)
(* first of "/", "?", "#".                                                 *)
(***************************************************************************)
urlparse_netloc(url) ==
    LET colon == Find(url, <<":">>)
        hasScheme == colon > 1 /\ \A i \in 1..(colon - 1) : url[i] \notin {"/", "?", "#", " "}
        rest == IF hasScheme THEN Suffix(url, colon) ELSE url
        stops == {i \in 3..Len(rest) : rest[i] \in {"/", "?", "#"}}
    IN  IF startswith(rest, <<"/", "/">>)
        THEN SubSeq(rest, 3, IF stops = {} THEN Len(rest) ELSE Min(stops) - 1)
        ELSE <<>>

\* get_website_name with domain.lstrip("www.") in place of the prefix test
get_website_name_lstrip(url) ==
    LET domain == urlparse_netloc(url)
        keep == {i \in 1..Len(domain) : domain[i] \notin {"w", "."}}
    IN  IF keep = {} THEN <<>> ELSE Suffix(domain, Min(keep) - 1)

get_website_name(url) ==
    LET domain == urlparse_netloc(url)
    IN  IF startswith(domain, WwwPrefix) THEN Suffix(domain, 4) ELSE domain

(***************************************************************************)
(* validators.url(url): a library call.  Whatever else it requires, it     *)
(* rejects the empty string, a string without "scheme://" and a string     *)
(* with nothing after it; beyond that the library decides (accepts).       *)
(***************************************************************************)
WellFormedUrl(url) ==
    LET at == Find(url, <<":", "/", "/">>)
    IN  /\ at > 1
        /\ at + 2 < Len(url)
        /\ \A i \in 1..Len(url) : url[i] \notin Whitespace

validators_url(url, accepts) == WellFormedUrl(url) /\ accepts

(***************************************************************************)
(* The frame of one call of index(): where it is (pc), its locals (unset   *)
(* is <<>>), the Article object, and what it has done so far: the library  *)
(* calls made, the messages flashed, the log records written and the       *)
(* response returned.                                                      *)
(***************************************************************************)
NoArticle ==
    [constructed |-> FALSE, is_downloaded |-> FALSE, parsed |-> FALSE, nlp_done |-> FALSE,
     title |-> "", authors |-> <<>>, publish_date |-> <<>>, text |-> <<>>, top_image |-> ""]

NewFrame(pc0) ==
    [pc |-> pc0, url |-> <<>>, article |-> NoArticle,
     title |-> <<>>, authors |-> <<>>, publish_date |-> <<>>, article_text |-> <<>>,
     summary |-> <<>>, top_image |-> <<>>, polarity |-> <<>>, sentiment |-> <<>>,
     calls |-> <<>>, flashed |-> <<>>, logged |-> <<>>, response |-> <<>>]

\* flash(msg); return redirect(url_for('index'))
FlashRedirect(f, msg) ==
    [f EXCEPT !.pc = "done",
              !.flashed = Append(@, msg),
              !.calls = Append(@, "redirect"),
              !.response = <<[kind |-> "redirect", result |-> <<>>]>>]

\* the environment before any library call of a request has answered
NoEnv ==
    [validator_accepts |-> TRUE,
     probe |-> [raises |-> "none", status |-> 200, content_type |-> <<>>],
     download_raises |-> FALSE, is_downloaded |-> FALSE,
     parse_raises |-> FALSE, nlp_raises |-> FALSE,
     article |-> [title |-> "", authors |-> <<>>, publish_date |-> <<>>,
                  text |-> <<>>, top_image |-> ""],
     textblob |-> [raises |-> FALSE, polarity |-> 0]]

\* index(), entry: request.method == 'POST' or the GET branch
dispatch(req) == NewFrame(IF req.method = "POST" THEN "validate" ELSE "get")

\* GET: the input form alone
render_form(req, e, f) ==
    [f EXCEPT !.pc = "done",
              !.calls = Append(@, "render_template"),
              !.response = <<[kind |-> "page", result |-> <<>>]>>]

\* validate_url that goes on to the probe whatever validators.url answered
validate_url_unchecked(req, e, f) ==
    [f EXCEPT !.pc = "probe", !.url = strip(req.url), !.calls = Append(@, "validators.url")]

\* url = request.form.get('url', '').strip(); if not validators.url(url): ...
validate_url(req, e, f) ==
    LET url == strip(req.url)
        g == [f EXCEPT !.url = url, !.calls = Append(@, "validators.url")]
    IN  IF ~validators_url(url, e.validator_accepts)
        THEN FlashRedirect(g, MsgInvalidUrl)
        ELSE [g EXCEPT !.pc = "probe"]

\* probe that lets any Content-Type through
probe_any_type(req, e, f) ==
    LET g == [f EXCEPT !.calls = Append(@, "safe_requests_get")]
    IN  IF e.probe.raises # "none" \/ e.probe.status \in 400..599
        THEN FlashRedirect([g EXCEPT !.logged = Append(@, "warning")], MsgProbeFailed)
        ELSE [g EXCEPT !.pc = "download"]

\* probe that tries the GET a second time when the first one raised
probe_retry(req, e, f) ==
    LET g == [f EXCEPT !.calls = Append(@, "safe_requests_get")]
        g2 == [g EXCEPT !.calls = Append(@, "safe_requests_get")]
    IN  IF e.probe.raises # "none"
        THEN FlashRedirect([g2 EXCEPT !.logged = Append(@, "warning")], MsgProbeFailed)
        ELSE IF e.probe.status \in 400..599
        THEN FlashRedirect([g EXCEPT !.logged = Append(@, "warning")], MsgProbeFailed)
        ELSE IF ~Contains(OrElse(e.probe.content_type, <<>>), TextHtml)
        THEN FlashRedirect(g, MsgNotHtml)
        ELSE [g EXCEPT !.pc = "download"]

\* resp = safe_requests_get(url, timeout=10); resp.raise_for_status();
\* the Content-Type test; except requests.RequestException
probe(req, e, f) ==
    LET g == [f EXCEPT !.calls = Append(@, "safe_requests_get")]
        content_type == OrElse(e.probe.content_type, <<>>)
    IN  IF e.probe.raises # "none" \/ e.probe.status \in 400..599
        THEN FlashRedirect([g EXCEPT !.logged = Append(@, "warning")], MsgProbeFailed)
        ELSE IF ~Contains(content_type, TextHtml)
        THEN FlashRedirect(g, MsgNotHtml)
        ELSE [g EXCEPT !.pc = "download"]

\* article = Article(url); article.download()
download(req, e, f) ==
    LET g == [f EXCEPT !.calls = @ \o <<"Article", "article.download">>,
                       !.article.constructed = TRUE]
    IN  IF e.download_raises
        THEN FlashRedirect([g EXCEPT !.logged = Append(@, "error")], MsgDownloadFailed)
        ELSE [g EXCEPT !.pc = "check_downloaded", !.article.is_downloaded = e.is_downloaded]

\* check_downloaded that goes on to parse() whatever the flag says
check_downloaded_ignored(req, e, f) == [f EXCEPT !.pc = "parse"]

\* if not article.is_downloaded
check_downloaded(req, e, f) ==
    IF ~f.article.is_downloaded
    THEN FlashRedirect([f EXCEPT !.logged = Append(@, "warning")], MsgNotRetrieved)
    ELSE [f EXCEPT !.pc = "parse"]

\* article.parse(): fills the Article's fields from the downloaded page
parse(req, e, f) ==
    LET g == [f EXCEPT !.calls = Append(@, "article.parse")]
    IN  IF e.parse_raises
        THEN FlashRedirect([g EXCEPT !.logged = Append(@, "error")], MsgParseFailed)
        ELSE [g EXCEPT !.pc = "nlp",
                       !.article.parsed = TRUE,
                       !.article.title = e.article.title,
                       !.article.authors = e.article.authors,
                       !.article.publish_date = e.article.publish_date,
                       !.article.text = e.article.text,
                       !.article.top_image = e.article.top_image]

\* nlp whose failure ends the request like a parse failure
nlp_fatal(req, e, f) ==
    LET g == [f EXCEPT !.calls = Append(@, "article.nlp")]
    IN  IF e.nlp_raises
        THEN FlashRedirect([g EXCEPT !.logged = Append(@, "error")], MsgParseFailed)
        ELSE [g EXCEPT !.pc = "fields", !.article.nlp_done = TRUE]

\* article.nlp() in its own try/except: a failure is logged and the handler goes on
nlp(req, e, f) ==
    LET g == [f EXCEPT !.calls = Append(@, "article.nlp")]
    IN  IF e.nlp_raises
        THEN [g EXCEPT !.pc = "fields", !.logged = Append(@, "warning")]
        ELSE [g EXCEPT !.pc = "fields", !.article.nlp_done = TRUE]

MonthNames ==
    <<"January", "February", "March", "April", "May", "June", "July", "August",
      "September", "October", "November", "December">>

\* d.strftime('%B %d, %Y')
strftime(d) == <<MonthNames[d.month], d.day, d.year>>

\* extract_fields without the test for an empty text
extract_fields_keep_empty(req, e, f) ==
    [f EXCEPT !.pc = "summary",
              !.title = <<IF f.article.title # "" THEN f.article.title ELSE "Untitled">>,
              !.authors = <<IF f.article.authors # <<>>
                            THEN join(AuthorSep, f.article.authors)
                            ELSE get_website_name(f.url)>>,
              !.publish_date = <<IF f.article.publish_date # <<>>
                                    /\ ~f.article.publish_date[1].strftime_raises
                                 THEN strftime(f.article.publish_date[1])
                                 ELSE <<"N/A">>>>,
              !.article_text = <<strip(OrElse(f.article.text, <<>>))>>]

\* title, authors, publish_date; article_text = (article.text or "").strip();
\* if not article_text: flash, redirect
extract_fields(req, e, f) ==
    LET title == IF f.article.title # "" THEN f.article.title ELSE "Untitled"
        authors == IF f.article.authors # <<>>
                   THEN join(AuthorSep, f.article.authors)
                   ELSE get_website_name(f.url)
        publish_date == IF f.article.publish_date # <<>>
                           /\ ~f.article.publish_date[1].strftime_raises
                        THEN strftime(f.article.publish_date[1])
                        ELSE <<"N/A">>
        article_text == strip(OrElse(f.article.text, <<>>))
        g == [f EXCEPT !.title = <<title>>, !.authors = <<authors>>,
                       !.publish_date = <<publish_date>>,
                       !.article_text = <<article_text>>]
    IN  IF article_text = <<>>
        THEN FlashRedirect(g, MsgEmptyText)
        ELSE [g EXCEPT !.pc = "summary"]

\* sentences = [s.strip() for s in article_text.split('.') if s.strip()]
sentences_of(article_text) ==
    LET parts == split(article_text, Period)
        stripped == [k \in 1..Len(parts) |-> strip(parts[k])]
    IN  SelectSeq(stripped, LAMBDA s : s # <<>>)

\* make_summary keeping one sentence too many
make_summary_six(article_text) ==
    LET summary == join(SentenceSep, Prefix(sentences_of(article_text), max_summarized_sentences + 1))
    IN  IF summary = <<>>
        THEN Prefix(article_text, SummaryChars)
             \o (IF Len(article_text) > SummaryChars THEN Ellipsis ELSE <<>>)
        ELSE summary

\* summary = ". ".join(sentences[:5]); if not summary: the first 800 characters
make_summary(article_text) ==
    LET summary == join(SentenceSep, Prefix(sentences_of(article_text), max_summarized_sentences))
    IN  IF summary = <<>>
        THEN Prefix(article_text, SummaryChars)
             \o (IF Len(article_text) > SummaryChars THEN Ellipsis ELSE <<>>)
        ELSE summary

\* the summary and top_image = article.top_image if ... else None
summarize(req, e, f) ==
    [f EXCEPT !.pc = "sentiment",
              !.summary = <<make_summary(f.article_text[1])>>,
              !.top_image = IF f.article.top_image # "" THEN <<f.article.top_image>> ELSE <<>>]

\* sentiment_label with polarity >= 0 for the happy branch
sentiment_label_ge(polarity) ==
    IF polarity >= 0 THEN Happy ELSE IF polarity < 0 THEN Sad ELSE Neutral

\* if polarity > 0: happy; elif polarity < 0: sad; else: neutral
sentiment_label(polarity) ==
    IF polarity > 0 THEN Happy ELSE IF polarity < 0 THEN Sad ELSE Neutral

\* TextBlob(article_text).sentiment.polarity, 0.0 when it raises; then the label
sentiment(req, e, f) ==
    LET g == [f EXCEPT !.calls = Append(@, "TextBlob")]
        polarity == IF e.textblob.raises THEN 0 ELSE e.textblob.polarity
    IN  [g EXCEPT !.pc = "render",
                  !.logged = IF e.textblob.raises THEN Append(@, "warning") ELSE @,
                  !.polarity = <<polarity>>,
                  !.sentiment = <<sentiment_label(polarity)>>]

\* return render_template('index.html', title=..., ..., sentiment=..., now=now)
render_result(req, e, f) ==
    [f EXCEPT !.pc = "done",
              !.calls = Append(@, "render_template"),
              !.response = <<[kind |-> "page",
                              result |-> <<[title |-> f.title[1], authors |-> f.authors[1],
                                            publish_date |-> f.publish_date[1],
                                            summary |-> f.summary[1],
                                            top_image |-> f.top_image,
                                            sentiment |-> f.sentiment[1]]>>]>>]

\* one step of index() from where the frame is
Step(req, e, f) ==
    CASE f.pc = "get" -> render_form(req, e, f)
      [] f.pc = "validate" -> validate_url(req, e, f)
      [] f.pc = "probe" -> probe(req, e, f)
      [] f.pc = "download" -> download(req, e, f)
      [] f.pc = "check_downloaded" -> check_downloaded(req, e, f)
      [] f.pc = "parse" -> parse(req, e, f)
      [] f.pc = "nlp" -> nlp(req, e, f)
      [] f.pc = "fields" -> extract_fields(req, e, f)
      [] f.pc = "summary" -> summarize(req, e, f)
      [] f.pc = "sentiment" -> sentiment(req, e, f)
      [] f.pc = "render" -> render_result(req, e, f)

\* index() run from frame f until it is at pc `until` or has returned
RECURSIVE RunTo(_, _, _, _)
RunTo(until, req, e, f) ==
    IF f.pc = until \/ f.pc = "done" THEN f ELSE RunTo(until, req, e, Step(req, e, f))

\* index(), whole, in an environment that answers as e does
index(req, e) == RunTo("done", req, e, dispatch(req))

(***************************************************************************)
(* The requests and the answers of the environment the model draws from.   *)
(***************************************************************************)
ExampleUrl == <<"h", "t", "t", "p", "s", ":", "/", "/", "w", "w", "w", ".", "e", "x", "a", "m", "p", "l", "e", ".", "c", "o", "m", "/", "s", "t", "o", "r", "y">>

NoSchemeUrl == <<"e", "x", "a", "m", "p", "l", "e", ".", "c", "o", "m", "/", "s", "t", "o", "r", "y">>

PaddedUrl == <<" ", "h", "t", "t", "p", "s", ":", "/", "/", "w", "w", "w", ".", "e", "x", "a", "m", "p", "l", "e", ".", "c", "o", "m", "/", "s", "t", "o", "r", "y", "\n">>

FormUrls ==
    {<<>>,
     <<" ", " ">>,
     NoSchemeUrl,
     <<"h", "t", "t", "p", ":", "/", "/">>,
     ExampleUrl,
     PaddedUrl,
     <<"h", "t", "t", "p", ":", "/", "/", "n", "e", "w", "s", ".", "o", "r", "g">>}

ContentTypes ==
    {<<>>,
     <<TextHtml>>,
     <<TextHtml \o <<";", " ", "c", "h", "a", "r", "s", "e", "t", "=", "u", "t", "f", "-", "8">>>>,
     <<<<"a", "p", "p", "l", "i", "c", "a", "t", "i", "o", "n", "/", "j", "s", "o", "n">>>>,
     <<<<"T", "E", "X", "T", "/", "H", "T", "M", "L">>>>}

ProbeOutcomes ==
    {[raises |-> r, status |-> 200, content_type |-> <<>>] : r \in {"ConnectionError", "Timeout"}}
    \cup {[raises |-> "none", status |-> st, content_type |-> <<TextHtml>>] : st \in {404, 500}}
    \cup {[raises |-> "none", status |-> 200, content_type |-> ct] : ct \in ContentTypes}

Titles == {"", "Headline"}

AuthorLists == {<<>>, <<<<"A", "n", "n">>>>, <<<<"A", "n", "n">>, <<"B", "o", "b">>>>}

PublishDates ==
    {<<>>,
     <<[year |-> 2024, month |-> 1, day |-> 5, strftime_raises |-> FALSE]>>,
     <<[year |-> 1, month |-> 12, day |-> 31, strftime_raises |-> TRUE]>>}

SixSentences == <<"A", ".", " ", "B", ".", " ", "C", ".", " ", "D", ".", " ", "E", ".", " ", "F", ".">>

Texts ==
    {<<>>,
     <<<<>>>>,
     <<<<" ", "\n", " ">>>>,
     <<<<" ", "O", "n", "e", ".", " ">>>>,
     <<<<".", " ", ".">>>>,
     <<<<"n", "o", " ", "p", "e", "r", "i", "o", "d">>>>,
     <<SixSentences>>}

TopImages == {"", "https://img.example.com/top.png"}

Articles ==
    [title : Titles, authors : AuthorLists, publish_date : PublishDates,
     text : Texts, top_image : TopImages]

\* polarity in hundredths, -100..100 for -1.0..1.0
Polarities == {-100, -1, 0, 50}

TextBlobOutcomes ==
    {[raises |-> TRUE, polarity |-> 0]} \cup {[raises |-> FALSE, polarity |-> p] : p \in Polarities}

(***************************************************************************)
(* The state machine: a request arrives, index() runs stage by stage, each *)
(* library call answering when it is made, and the response is returned.   *)
(***************************************************************************)
Init ==
    /\ request = [method |-> "GET", url |-> <<>>]
    /\ env = NoEnv
    /\ h = NewFrame("idle")

\* a client sends GET / or POST / with the form field url
Request ==
    /\ h.pc \in {"idle", "done"}
    /\ \E r \in {[method |-> "GET", url |-> <<>>]} \cup {[method |-> "POST", url |-> u] : u \in FormUrls} :
           /\ request' = r
           /\ h' = dispatch(r)
    /\ env' = NoEnv

Get ==
    /\ h.pc = "get"
    /\ h' = render_form(request, env, h)
    /\ UNCHANGED <<request, env>>

Validate ==
    /\ h.pc = "validate"
    /\ \E a \in BOOLEAN :
           LET e == [env EXCEPT !.validator_accepts = a]
           IN  env' = e /\ h' = validate_url(request, e, h)
    /\ UNCHANGED request

Probe ==
    /\ h.pc = "probe"
    /\ \E o \in ProbeOutcomes :
           LET e == [env EXCEPT !.probe = o]
           IN  env' = e /\ h' = probe(request, e, h)
    /\ UNCHANGED request

Download ==
    /\ h.pc = "download"
    /\ \E r \in BOOLEAN, d \in BOOLEAN :
           LET e == [env EXCEPT !.download_raises = r, !.is_downloaded = d /\ ~r]
           IN  env' = e /\ h' = download(request, e, h)
    /\ UNCHANGED request

CheckDownloaded ==
    /\ h.pc = "check_downloaded"
    /\ h' = check_downloaded(request, env, h)
    /\ UNCHANGED <<request, env>>

Parse ==
    /\ h.pc = "parse"
    /\ \/ \E a \in Articles :
              LET e == [env EXCEPT !.article = a]
              IN  env' = e /\ h' = parse(request, e, h)
       \/ LET e == [env EXCEPT !.parse_raises = TRUE]
          IN  env' = e /\ h' = parse(request, e, h)
    /\ UNCHANGED request

Nlp ==
    /\ h.pc = "nlp"
    /\ \E r \in BOOLEAN :
           LET e == [env EXCEPT !.nlp_raises = r]
           IN  env' = e /\ h' = nlp(request, e, h)
    /\ UNCHANGED request

ExtractFields ==
    /\ h.pc = "fields"
    /\ h' = extract_fields(request, env, h)
    /\ UNCHANGED <<request, env>>

Summarize ==
    /\ h.pc = "summary"
    /\ h' = summarize(request, env, h)
    /\ UNCHANGED <<request, env>>

Sentiment ==
    /\ h.pc = "sentiment"
    /\ \E t \in TextBlobOutcomes :
           LET e == [env EXCEPT !.textblob = t]
           IN  env' = e /\ h' = sentiment(request, e, h)
    /\ UNCHANGED request

Render ==
    /\ h.pc = "render"
    /\ h' = render_result(request, env, h)
    /\ UNCHANGED <<request, env>>

Next ==
    \/ Request
    \/ Get
    \/ Validate
    \/ Probe
    \/ Download
    \/ CheckDownloaded
    \/ Parse
    \/ Nlp
    \/ ExtractFields
    \/ Summarize
    \/ Sentiment
    \/ Render

Spec == Init /\ [][Next]_vars

(***************************************************************************)
(* The summary and the authors field over wider inputs: index() has run,   *)
(* every stage succeeding, up to the statements that compute the fields,   *)
(* and goes on from there to the rendered page.                            *)
(***************************************************************************)
SeqsUpTo(S, n) == UNION {[1..k -> S] : k \in 0..n}

RECURSIVE Concat(_)
Concat(ss) == IF ss = <<>> THEN <<>> ELSE ss[1] \o Concat(Tail(ss))

\* what article texts are put together from
Pieces == {<<"A", ".">>, <<" ", "B">>, <<".">>, <<" ">>}

PieceTexts == {Concat(ps) : ps \in SeqsUpTo(Pieces, MaxPieces)}

\* texts around SummaryChars long: period-free, one period, periods only
LongTexts ==
    {[i \in 1..n |-> IF i \in P THEN "." ELSE "a"] :
        n \in (SummaryChars - 1)..(SummaryChars + MaxOver),
        P \in {{}, {2}, 1..(SummaryChars + MaxOver)}}

HostChars == {"w", ".", "e"}

Hosts == SeqsUpTo(HostChars, MaxHostLen) \ {<<>>}

UrlTails == {<<>>, <<"/", "s">>, <<"?", "q">>, <<"#", "f">>, <<":", "8", "0", "/", "w">>}

WideUrls ==
    {ExampleUrl} \cup {<<"h", "t", "t", "p", ":", "/", "/">> \o host \o tail : host \in Hosts, tail \in UrlTails}

\* every library call up to article.nlp() has succeeded and parse() found article a
EnvParsed(a) ==
    [NoEnv EXCEPT !.probe = [raises |-> "none", status |-> 200, content_type |-> <<TextHtml>>],
                  !.is_downloaded = TRUE,
                  !.article = a]

PlainArticle ==
    [title |-> "Headline", authors |-> <<>>, publish_date |-> <<>>,
     text |-> <<<<"O", "n", "e", ".">>>>, top_image |-> ""]

InitSummary ==
    /\ request = [method |-> "POST", url |-> ExampleUrl]
    /\ \E t \in PieceTexts \cup LongTexts \cup {SixSentences} :
           env = EnvParsed([PlainArticle EXCEPT !.text = <<t>>])
    /\ h = RunTo("fields", request, env, dispatch(request))

\* index() from the fields on: lines 107-154
NextRender ==
    \/ ExtractFields
    \/ Summarize
    \/ Sentiment
    \/ Render

SpecSummary == InitSummary /\ [][NextRender]_vars

InitAuthors ==
    /\ \E u \in WideUrls : request = [method |-> "POST", url |-> u]
    /\ \E as \in AuthorLists : env = EnvParsed([PlainArticle EXCEPT !.authors = as])
    /\ h = RunTo("fields", request, env, dispatch(request))

SpecAuthors == InitAuthors /\ [][NextRender]_vars

(***************************************************************************)
(* What the claims speak of.                                               *)
(***************************************************************************)
Done == h.pc = "done"

IsPost == request.method = "POST"

Redirected == Done /\ h.response[1].kind = "redirect"

\* the result page: the page with the article's fields on it
RenderedResult == Done /\ h.response[1].kind = "page" /\ h.response[1].result # <<>>

Count(calls, name) == Cardinality({i \in 1..Len(calls) : calls[i] = name})

Called(name) == Count(h.calls, name) > 0

\* the stages of a POST in the order of section 4, by the library call each makes
StageCalls ==
    <<"validators.url", "safe_requests_get", "Article", "article.download",
      "article.parse", "article.nlp", "TextBlob", "render_template">>

\* the answers of the environment, stage by stage
UrlOk == validators_url(strip(request.url), env.validator_accepts)

ProbeReached == env.probe.raises = "none" /\ env.probe.status \notin 400..599

ProbeHtml ==
    /\ env.probe.content_type # <<>>
    /\ \E i \in 1..(Len(env.probe.content_type[1]) - 8) :
           [k \in 1..9 |-> env.probe.content_type[1][i + k - 1]] = TextHtml

TextBlank ==
    \/ env.article.text = <<>>
    \/ \A i \in 1..Len(env.article.text[1]) : env.article.text[1][i] \in Whitespace

\* the fatal stages in order: <<passed, message(s) of its failure, calls made by then>>
FatalStages ==
    <<[ok |-> UrlOk, msgs |-> {MsgInvalidUrl}, ncalls |-> 1],
      [ok |-> ProbeReached /\ ProbeHtml, msgs |-> {MsgProbeFailed, MsgNotHtml}, ncalls |-> 2],
      [ok |-> ~env.download_raises, msgs |-> {MsgDownloadFailed}, ncalls |-> 4],
      [ok |-> env.is_downloaded, msgs |-> {MsgNotRetrieved}, ncalls |-> 4],
      [ok |-> ~env.parse_raises, msgs |-> {MsgParseFailed}, ncalls |-> 5],
      [ok |-> ~TextBlank, msgs |-> {MsgEmptyText}, ncalls |-> 6]>>

FailedStages == {k \in 1..Len(FatalStages) : ~FatalStages[k].ok}

\* C1: the stages of a POST run in the fixed order; the first fatal stage that
\* fails ends the request with a redirect and exactly one flashed message of that
\* stage, nothing of a later stage having run; the result page is rendered if and
\* only if every fatal stage succeeded, and a failed request renders no field.
C1_FirstFailureEnds ==
    IsPost =>
        /\ \E n \in 0..Len(StageCalls) :
               h.calls \in {SubSeq(StageCalls, 1, n), Append(SubSeq(StageCalls, 1, n), "redirect")}
        /\ Done =>
               IF FailedStages = {}
               THEN /\ RenderedResult
                    /\ h.flashed = <<>>
                    /\ h.calls = StageCalls
               ELSE LET first == FatalStages[Min(FailedStages)]
                    IN  /\ Redirected
                        /\ h.response[1].result = <<>>
                        /\ Len(h.flashed) = 1
                        /\ h.flashed[1] \in first.msgs
                        /\ h.calls = Append(SubSeq(StageCalls, 1, first.ncalls), "redirect")

C1_Witness ==
    /\ IsPost /\ Redirected
    /\ h.flashed = <<MsgNotRetrieved>>
    /\ UrlOk /\ ProbeReached /\ ProbeHtml /\ ~env.download_raises /\ ~env.is_downloaded

\* C2: a POST whose trimmed url is not a valid URL flashes the invalid-URL message
\* and redirects, and at no point of that request is the probe GET or
\* article.download() called.
C2_InvalidUrlNoNetwork ==
    (IsPost /\ h.pc \notin {"idle", "validate"} /\ ~UrlOk) =>
        /\ Redirected
        /\ h.flashed = <<MsgInvalidUrl>>
        /\ ~Called("safe_requests_get")
        /\ ~Called("article.download")

C2_Witness ==
    /\ IsPost /\ Redirected
    /\ request.url = NoSchemeUrl
    /\ h.flashed = <<MsgInvalidUrl>>

\* C3: a valid URL whose probe answers with a success status and a Content-Type
\* that does not contain "text/html" (an absent header included) is rejected with
\* the "not an article" message and a redirect, and no extraction step (Article,
\* download, parse, nlp) is performed.
C3_NonHtmlNoExtraction ==
    (IsPost /\ h.pc \notin {"idle", "validate", "probe"} /\ UrlOk /\ ProbeReached /\ ~ProbeHtml) =>
        /\ Redirected
        /\ h.flashed = <<MsgNotHtml>>
        /\ ~h.article.constructed
        /\ \A c \in {"Article", "article.download", "article.parse", "article.nlp"} : ~Called(c)

C3_Witness ==
    /\ IsPost /\ Redirected /\ UrlOk
    /\ Called("safe_requests_get")
    /\ env.probe = [raises |-> "none", status |-> 200, content_type |-> <<>>]
    /\ h.flashed = <<MsgNotHtml>>

\* C4: once validation, probe, download and parse have passed, a text that is
\* empty after trimming (absent or whitespace only) is rejected with the
\* empty-content message and a redirect, whatever the other fields are and whether
\* or not nlp() succeeded; no summary and no sentiment is computed or rendered.
C4_EmptyTextRejected ==
    (h.article.parsed /\ h.pc \notin {"nlp", "fields"} /\ TextBlank) =>
        /\ Redirected
        /\ h.flashed = <<MsgEmptyText>>
        /\ h.response[1].result = <<>>
        /\ h.summary = <<>> /\ h.polarity = <<>> /\ h.sentiment = <<>>
        /\ ~Called("TextBlob")

C4_Witness ==
    /\ Redirected /\ h.article.parsed
    /\ env.article.text = <<<<" ", "\n", " ">>>>
    /\ env.article.title = "Headline" /\ env.article.authors # <<>>
    /\ env.article.publish_date # <<>> /\ env.article.top_image # ""
    /\ h.article.nlp_done
    /\ h.flashed = <<MsgEmptyText>>

\* C10: within one POST there is no retry: the probe GET is issued at most once
\* and article.download() at most once; the download is only called after a probe
\* that succeeded (success status, HTML content type); a request that renders the
\* result page has made exactly one probe followed by exactly one download; a GET
\* request makes neither.
C10_NoRetry ==
    /\ Count(h.calls, "safe_requests_get") <= 1
    /\ Count(h.calls, "article.download") <= 1
    /\ Called("article.download") =>
           /\ ProbeReached /\ ProbeHtml
           /\ \E i, j \in 1..Len(h.calls) :
                  i < j /\ h.calls[i] = "safe_requests_get" /\ h.calls[j] = "article.download"
    /\ RenderedResult =>
           /\ Count(h.calls, "safe_requests_get") = 1
           /\ Count(h.calls, "article.download") = 1
    /\ ~IsPost => ~Called("safe_requests_get") /\ ~Called("article.download")

C10_Witness ==
    /\ IsPost /\ RenderedResult
    /\ Count(h.calls, "safe_requests_get") = 1
    /\ Count(h.calls, "article.download") = 1

\* C7: the sentiment label of a rendered result page is the one its polarity
\* determines: above 0 happy, below 0 sad, 0 neutral; when the sentiment
\* computation raises, the polarity is 0.0, the label neutral, and the request
\* still renders the result page.
C7_SentimentLabel ==
    /\ h.sentiment # <<>> =>
           /\ h.polarity = <<IF env.textblob.raises THEN 0 ELSE env.textblob.polarity>>
           /\ \/ h.polarity[1] > 0 /\ h.sentiment[1] = "happy"
              \/ h.polarity[1] < 0 /\ h.sentiment[1] = "sad"
              \/ h.polarity[1] = 0 /\ h.sentiment[1] = "neutral"
    /\ RenderedResult => h.response[1].result[1].sentiment = h.sentiment[1]
    /\ (Done /\ Called("TextBlob")) => RenderedResult /\ h.flashed = <<>>

C7_Witness ==
    /\ RenderedResult
    /\ env.textblob.raises
    /\ h.response[1].result[1].sentiment = "neutral"

\* what the client gets back
Outcome(f) == [response |-> f.response, flashed |-> f.flashed]

\* C9: a failure of article.nlp() is not fatal: with every other answer of the
\* environment the same, the outcome of the request (result page or redirect, the
\* flashed message, every rendered field) is the same whether nlp() raised or
\* succeeded, and nlp() flashes nothing and returns no response by itself.
C9_NlpNonFatal ==
    /\ Done => Outcome(index(request, [env EXCEPT !.nlp_raises = ~@])) = Outcome(h)
    /\ h.pc = "fields" => h.flashed = <<>> /\ h.response = <<>>

C9_Witness ==
    /\ RenderedResult
    /\ env.nlp_raises /\ Called("article.nlp") /\ ~h.article.nlp_done

(***************************************************************************)
(* The summary, said without split(): the leading non-empty fragments are  *)
(* found from the characters that are neither a period nor whitespace.     *)
(***************************************************************************)
RECURSIVE LeadingFragments(_, _, _)
LeadingFragments(s, from, k) ==
    LET content == {i \in from..Len(s) : s[i] # "." /\ s[i] \notin Whitespace}
    IN  IF k = 0 \/ content = {} THEN <<>>
        ELSE LET first == Min(content)
                 periods == {i \in first..Len(s) : s[i] = "."}
                 stop == IF periods = {} THEN Len(s) + 1 ELSE Min(periods)
                 last == Max({i \in content : i < stop})
             IN  <<SubSeq(s, first, last)>> \o LeadingFragments(s, stop + 1, k - 1)

RECURSIVE JoinedBy(_, _)
JoinedBy(frags, sep) ==
    IF Len(frags) = 0 THEN <<>>
    ELSE IF Len(frags) = 1 THEN frags[1]
    ELSE JoinedBy(SubSeq(frags, 1, Len(frags) - 1), sep) \o sep \o frags[Len(frags)]

Truncated(s) ==
    [i \in 1..(IF Len(s) > 800 THEN 800 ELSE Len(s)) |-> s[i]]
    \o (IF Len(s) > 800 THEN <<".", ".", ".">> ELSE <<>>)

\* C5: for a trimmed text with at least one non-empty fragment the summary is
\* the first min(5, n) of its n non-empty trimmed period-delimited fragments, in
\* order, joined with ". "; for a text with none (periods and whitespace only)
\* it is the first 800 characters of the text, followed by "..." when the text
\* is longer.
C5_LeadingSentences ==
    h.summary # <<>> =>
        LET frags == LeadingFragments(h.article_text[1], 1, 5)
        IN  IF frags # <<>>
            THEN h.summary[1] = JoinedBy(frags, <<".", " ">>)
            ELSE h.summary[1] = Truncated(h.article_text[1])

\* C5 as claimed: for every non-empty trimmed text the summary is the first
\* min(5, n) fragments joined with ". "
C5_AsClaimed ==
    h.summary # <<>> =>
        h.summary[1] = JoinedBy(LeadingFragments(h.article_text[1], 1, 5), <<".", " ">>)

C5_Witness ==
    /\ RenderedResult
    /\ h.article_text = <<SixSentences>>
    /\ h.response[1].result[1].summary = <<"A", ".", " ", "B", ".", " ", "C", ".", " ", "D", ".", " ", "E">>

\* C6: for every text without a period and longer than 800 characters the
\* summary is the first 800 characters of the text followed by "..."
C6_PeriodFreeTruncated ==
    (h.summary # <<>>
        /\ Len(h.article_text[1]) > 800
        /\ \A i \in 1..Len(h.article_text[1]) : h.article_text[1][i] # ".") =>
        h.summary[1] = Truncated(h.article_text[1])

\* the network location of a URL, said without urlparse: what stands between
\* the first "://" and the first "/", "?" or "#" after it
NetworkLocation(url) ==
    LET from == 3 + Min({i \in 1..(Len(url) - 2) : <<url[i], url[i + 1], url[i + 2]>> = <<":", "/", "/">>})
        upto == Max({j \in (from - 1)..Len(url) : \A i \in from..j : url[i] \notin {"/", "?", "#"}})
    IN  [i \in 1..(upto - from + 1) |-> url[from + i - 1]]

\* C8: with an empty author list the authors field is the network location of
\* the submitted URL, a leading "www." removed when present and the location
\* unchanged otherwise; with a non-empty author list it is the authors joined
\* with ", " and the domain is not used.
C8_AuthorsOrDomain ==
    h.authors # <<>> =>
        LET loc == NetworkLocation(h.url)
            www == Len(loc) >= 4 /\ <<loc[1], loc[2], loc[3], loc[4]>> = <<"w", "w", "w", ".">>
        IN  /\ h.authors[1] =
                   IF env.article.authors # <<>> THEN JoinedBy(env.article.authors, <<",", " ">>)
                   ELSE IF www THEN [i \in 1..(Len(loc) - 4) |-> loc[i + 4]]
                   ELSE loc
            /\ RenderedResult => h.response[1].result[1].authors = h.authors[1]

C8_Witness ==
    /\ RenderedResult
    /\ request.url = ExampleUrl
    /\ env.article.authors = <<>>
    /\ h.response[1].result[1].authors = <<"e", "x", "a", "m", "p", "l", "e", ".", "c", "o", "m">>

=============================================================================
